---------------------------- MODULE Spec2Model ----------------------------
(***************************************************************************)
(* Model of yieldmax_app.py, a Streamlit script.  Streamlit re-executes    *)
(* the whole script top to bottom on every widget interaction; the only    *)
(* state that survives a run is st.session_state (fund_data,               *)
(* fund_dividends) and the values of the widgets.  A run in which the      *)
(* button is not pressed is one step.  A run in which it is pressed is     *)
(* three: the script up to the blocking fetch call (lines 9-48), the       *)
(* fetch itself (lines 26-38 and 51), which may raise, and the rest of the *)
(* script (lines 53-126).                                                  *)
(* Dates are day numbers, dividend amounts are whole dollars.              *)
(***************************************************************************)
EXTENDS Integers, FiniteSets, Sequences, TLC

\* Number of trading days the data provider knows about (days 1..MaxDate).
MaxDate == 2

\* The modelled part of the ticker registry (line 13-18) and the default
\* selection of the multiselect (line 23), cut down to the modelled registry.
yieldmax_tickers == {"TSLY", "YMAX"}
DefaultSelection == {"YMAX"}

Dates == 1..MaxDate

\* datetime(2000, 1, 1): earlier than every day the provider knows about.
Epoch2000 == 0
\* datetime.today(): the provider returns "what is available up to now".
Today == MaxDate
\* pandas' NaT, the result of Series.min()/max() over no rows.
NaT == -1

\* Dividend amounts the provider reports for a day with a distribution; a day
\* without one carries NaN (a day of the index without an entry in div).
Amounts == {1, 2}
\* The same for a provider that also reports negative amounts.
SignedAmounts == {-1, 2}

\* The "Ticker" column of a dividend table that has never been through
\* line 90.
NoColumn == "<no Ticker column>"

VARIABLES
    market,            \* the data provider: ticker -> its full history
    fund_data,         \* st.session_state.fund_data
    fund_dividends,    \* st.session_state.fund_dividends
    selected_tickers,  \* value of the multiselect
    button,            \* value of st.button in the current run
    min_date,          \* line 58 / 61, as of the last resolver step
    max_date,          \* line 59 / 62
    widget_bounds,     \* (min, max) the date inputs were last created with
    start_date,        \* value of the "Start Date" input
    end_date,          \* value of the "End Date" input
    pc,                \* position of the current script run
    shown,             \* elements on the page
    fig,               \* price chart: ticker -> trace
    pivoted_dividends, \* the table given to st.dataframe
    fig_dividends,     \* dividend chart: ticker -> bars
    raised             \* tickers whose provider call raised in the current run

vars == <<market, fund_data, fund_dividends, selected_tickers, button,
          min_date, max_date, widget_bounds, start_date, end_date, pc,
          shown, fig, pivoted_dividends, fig_dividends, raised>>

-----------------------------------------------------------------------------
(* Helpers *)

\* The function with an empty domain: an empty dict, an empty frame.
Empty == <<>>

SetMin(S) == CHOOSE m \in S : \A x \in S : m <= x
SetMax(S) == CHOOSE m \in S : \A x \in S : m >= x

PartialFns(D, V) == UNION {[E -> V] : E \in SUBSET D}

\* What history(period="max") can return for one ticker: an index of days,
\* a Close on every day, a Dividends amount on some of them (NaN elsewhere).
Histories(amounts) ==
    UNION {{[idx |-> D, div |-> g] : g \in PartialFns(D, amounts)} : D \in SUBSET Dates}

\* The provider's closing price; its value plays no role, only its days do.
ClosePrice(t, d) == 10 * d + (IF t = "YMAX" THEN 1 ELSE 0)

-----------------------------------------------------------------------------
(* fetch_yieldmax_data, lines 26-38 *)

\* Line 31: hist, the price table of one ticker.
Hist(t) == [d \in market[t].idx |-> ClosePrice(t, d)]

\* Line 34: fillna(0) on the Dividends column.
FillNa0(raw) == [d \in raw.idx |-> IF d \in DOMAIN raw.div THEN raw.div[d] ELSE 0]

\* Lines 32-35: divs, a frame with the columns Date and Dividends only.
Divs(t) == [rows |-> FillNa0(market[t]), Ticker |-> NoColumn]

\* A fetch that updates the dict already in the session state instead of
\* building a new one.
FetchDataMerged(tickers) == [t \in tickers \cup DOMAIN fund_data |-> Hist(t)]

\* A fetch that leaves out the tickers for which the provider returned no row.
FetchDividendsSkipEmpty(tickers) ==
    [t \in {u \in tickers : market[u].idx # {}} |-> Divs(t)]

\* Lines 27-38: the two dicts, keyed by the tickers of the loop.
FetchData(tickers) == [t \in tickers |-> Hist(t)]
FetchDividends(tickers) == [t \in tickers |-> Divs(t)]


-----------------------------------------------------------------------------
(* Date range resolver, lines 53-62 *)

\* Lines 55-57: the Date column of the concatenation of all cached tables.
CombinedDates(dividends) == UNION {DOMAIN dividends[t].rows : t \in DOMAIN dividends}

\* Series.min() / Series.max() of a datetime column: NaT when it has no rows.
SeriesMin(S) == IF S = {} THEN NaT ELSE SetMin(S)
SeriesMax(S) == IF S = {} THEN NaT ELSE SetMax(S)

\* A resolver that looks at one cached table instead of their concatenation.
ResolveMinOneTable(dividends) ==
    IF DOMAIN dividends # {}
       THEN SeriesMin(DOMAIN dividends[CHOOSE t \in DOMAIN dividends : TRUE].rows)
       ELSE Epoch2000

\* Lines 54, 58, 61: the guard is the truthiness of the dict, not of the union.
ResolveMin(dividends) ==
    IF DOMAIN dividends # {} THEN SeriesMin(CombinedDates(dividends)) ELSE Epoch2000

\* Lines 54, 59, 62.
ResolveMax(dividends) ==
    IF DOMAIN dividends # {} THEN SeriesMax(CombinedDates(dividends)) ELSE Today

-----------------------------------------------------------------------------
(* Price chart, lines 69-83 *)

\* A price chart clipped to the date filter.
PriceTracesClipped(data) ==
    [t \in DOMAIN data |->
        [d \in {x \in DOMAIN data[t] : start_date <= x /\ x <= end_date} |-> data[t][d]]]

\* Lines 73-74: one trace per cached ticker, x = hist.index, y = hist["Close"].
PriceTraces(data) == [t \in DOMAIN data |-> data[t]]

-----------------------------------------------------------------------------
(* Dividend table, lines 85-100 *)

\* Lines 89-91: dividends["Ticker"] = ticker writes the column into the cached
\* frame itself (the loop variable is the object held by the session state).
TagTicker(dividends) ==
    [t \in DOMAIN dividends |-> [dividends[t] EXCEPT !.Ticker = t]]

\* Line 94: pd.concat of the tagged frames, as a set of rows.
Concat(dividends) ==
    UNION {{[Ticker |-> dividends[t].Ticker, Date |-> d, Dividends |-> dividends[t].rows[d]] :
                d \in DOMAIN dividends[t].rows} : t \in DOMAIN dividends}

\* Line 96: start <= Date <= end, both ends inclusive.
FilterRows(rows, start, end) == {r \in rows : r.Date >= start /\ r.Date <= end}

\* Line 97: pivot(index="Ticker", columns="Date", values="Dividends").  A cell
\* with no row behind it is NaN: the date is not in the domain of the row.
Pivot(rows) ==
    LET index == {r.Ticker : r \in rows}
    IN  [index   |-> index,
         columns |-> {r.Date : r \in rows},
         values  |-> [t \in index |->
                        [d \in {r.Date : r \in {q \in rows : q.Ticker = t}} |->
                            (CHOOSE r \in rows : r.Ticker = t /\ r.Date = d).Dividends]]]

IsNa(p, t, d) == d \notin DOMAIN p.values[t]

\* (pivoted == v).all(axis=0) for column d: NaN == v is False.
AllEqual(p, d, v) == \A t \in p.index : ~IsNa(p, t, d) /\ p.values[t][d] = v

\* pivoted.isna().all(axis=0) for column d.
AllNa(p, d) == \A t \in p.index : IsNa(p, t, d)

\* A mask built with .any(axis=0) in place of .all(axis=0).
KeepColumnAny(p, d) ==
    ~(\/ \E t \in p.index : ~IsNa(p, t, d) /\ p.values[t][d] = 0
      \/ \E t \in p.index : ~IsNa(p, t, d) /\ p.values[t][d] = 1
      \/ \E t \in p.index : IsNa(p, t, d))

\* Line 99: the column mask.
KeepColumn(p, d) == ~(AllEqual(p, d, 0) \/ AllEqual(p, d, 1) \/ AllNa(p, d))

\* Line 99: .loc[:, mask] keeps every row of the index and the masked columns.
DropColumns(p) ==
    LET keep == {d \in p.columns : KeepColumn(p, d)}
    IN  [index   |-> p.index,
         columns |-> keep,
         values  |-> [t \in p.index |->
                        [d \in DOMAIN p.values[t] \cap keep |-> p.values[t][d]]]]

\* Lines 94-99.
PivotedDividends(dividends, start, end) ==
    DropColumns(Pivot(FilterRows(Concat(dividends), start, end)))

-----------------------------------------------------------------------------
(* Dividend chart, lines 102-122 *)

\* A chart filter that keeps what is not zero: row[row != 0] without the NaN.
NonZeroDataNotEqual(p, t) ==
    [d \in {c \in DOMAIN p.values[t] : p.values[t][c] # 0} |-> p.values[t][d]]

\* Line 106: row[row > 0]; NaN > 0 is False.
NonZeroData(p, t) ==
    [d \in {c \in DOMAIN p.values[t] : p.values[t][c] > 0} |-> p.values[t][d]]

\* Lines 105-113: one Bar trace per row of the table.
DividendBars(p) == [t \in p.index |-> NonZeroData(p, t)]

NoTable == [index |-> {}, columns |-> {}, values |-> Empty]

-----------------------------------------------------------------------------
(* Lines 53-126 as a function of what the run sees *)

\* Lines 66-67: st.date_input(label, default, min_value=lo, max_value=hi).  An
\* input created with the bounds of the last run is the same widget and returns
\* the value the user left in it; with other bounds it is a new widget and
\* returns its default.
DateInput(value, default, lo, hi) ==
    IF widget_bounds = <<lo, hi>> THEN value ELSE default

\* The page and the session state a run leaves when it executes lines 53-126
\* with the cache (data, dividends), the date input values (start, end) and the
\* elements already on the page.  date_input raises on a NaT default, and the
\* uncaught exception ends the run on the spot.
ScriptRest(data, dividends, start, end, page) ==
    LET lo == ResolveMin(dividends)
        hi == ResolveMax(dividends)
        s  == DateInput(start, lo, lo, hi)
        e  == DateInput(end, hi, lo, hi)
        tagged == TagTicker(dividends)
        table  == PivotedDividends(tagged, s, e)
        cached == DOMAIN dividends # {}
    IN  IF lo = NaT \/ hi = NaT
           THEN [min_date |-> lo, max_date |-> hi, widget_bounds |-> widget_bounds,
                 start_date |-> start, end_date |-> end,
                 shown |-> page \cup {"exception"},
                 fig |-> Empty, fund_dividends |-> dividends,
                 pivoted_dividends |-> NoTable, fig_dividends |-> Empty]
           ELSE [min_date |-> lo, max_date |-> hi, widget_bounds |-> <<lo, hi>>,
                 start_date |-> s, end_date |-> e,
                 shown |-> page \cup {"date_inputs"}
                           \cup (IF DOMAIN data # {} THEN {"price_chart"} ELSE {})
                           \cup (IF cached THEN {"table", "dividend_chart"}
                                           ELSE {"idle_text"}),
                 fig |-> IF DOMAIN data # {} THEN PriceTraces(data) ELSE Empty,
                 fund_dividends |-> IF cached THEN tagged ELSE dividends,
                 pivoted_dividends |-> IF cached THEN table ELSE NoTable,
                 fig_dividends |-> IF cached THEN DividendBars(table) ELSE Empty]

\* The run's effect on the state.
Finish(r) ==
    /\ min_date' = r.min_date
    /\ max_date' = r.max_date
    /\ widget_bounds' = r.widget_bounds
    /\ start_date' = r.start_date
    /\ end_date' = r.end_date
    /\ shown' = r.shown
    /\ fig' = r.fig
    /\ fund_dividends' = r.fund_dividends
    /\ pivoted_dividends' = r.pivoted_dividends
    /\ fig_dividends' = r.fig_dividends
    /\ pc' = "idle"

-----------------------------------------------------------------------------
(* The session *)

\* The session after its first script run: empty cache (lines 41-44), button
\* not pressed, default bounds and date inputs, the fallback text of line 126.
\* The provider's data is any history over the given amounts and stays the
\* same for the whole session.
InitWith(amounts) ==
    /\ market \in [yieldmax_tickers -> Histories(amounts)]
    /\ fund_data = Empty
    /\ fund_dividends = Empty
    /\ selected_tickers = DefaultSelection
    /\ button = FALSE
    /\ min_date = Epoch2000
    /\ max_date = Today
    /\ widget_bounds = <<Epoch2000, Today>>
    /\ start_date = Epoch2000
    /\ end_date = Today
    /\ pc = "idle"
    /\ shown = {"date_inputs", "idle_text"}
    /\ fig = Empty
    /\ pivoted_dividends = NoTable
    /\ fig_dividends = Empty
    /\ raised = {}

Init == InitWith(Amounts)

\* The same session against a provider that also reports negative amounts.
InitSigned == InitWith(SignedAmounts)

\* The user presses the button: lines 9-48 run on a blank page, st.button
\* returns True, the "Fetching data..." text is written and the call of
\* fetch_yieldmax_data begins.
PressFetch ==
    /\ pc = "idle"
    /\ button' = TRUE
    /\ shown' = {"fetching"}
    /\ fig' = Empty
    /\ pivoted_dividends' = NoTable
    /\ fig_dividends' = Empty
    /\ raised' = {}
    /\ pc' = "fetching"
    /\ UNCHANGED <<market, fund_data, fund_dividends, selected_tickers, min_date,
                   max_date, widget_bounds, start_date, end_date>>

\* Line 51 with every provider call answering: both dicts of the session state
\* are assigned the dicts built by fetch_yieldmax_data(selected_tickers).
FetchComplete ==
    /\ pc = "fetching"
    /\ fund_data' = FetchData(selected_tickers)
    /\ fund_dividends' = FetchDividends(selected_tickers)
    /\ pc' = "fetched"
    /\ UNCHANGED <<market, selected_tickers, button, min_date, max_date,
                   widget_bounds, start_date, end_date, shown, fig,
                   pivoted_dividends, fig_dividends, raised>>

\* A fetch that isolates the failure of one ticker: the others are stored.
FetchErrorIsolated ==
    /\ pc = "fetching"
    /\ \E t \in selected_tickers :
          /\ raised' = {t}
          /\ fund_data' = FetchData(selected_tickers \ {t})
          /\ fund_dividends' = FetchDividends(selected_tickers \ {t})
    /\ shown' = shown \cup {"exception"}
    /\ pc' = "idle"
    /\ UNCHANGED <<market, selected_tickers, button, min_date, max_date,
                   widget_bounds, start_date, end_date, fig, pivoted_dividends,
                   fig_dividends>>

\* Lines 30-32 raising for ticker t: nothing catches it, fetch_yieldmax_data does
\* not return, the assignment of line 51 does not happen and the run ends.
FetchError ==
    /\ pc = "fetching"
    /\ \E t \in selected_tickers : raised' = {t}
    /\ shown' = shown \cup {"exception"}
    /\ pc' = "idle"
    /\ UNCHANGED <<market, fund_data, fund_dividends, selected_tickers, button,
                   min_date, max_date, widget_bounds, start_date, end_date, fig,
                   pivoted_dividends, fig_dividends>>

\* Lines 53-126 of the run that fetched.
RenderFetched ==
    /\ pc = "fetched"
    /\ \E r \in {ScriptRest(fund_data, fund_dividends, start_date, end_date, shown)} : Finish(r)
    /\ UNCHANGED <<market, fund_data, selected_tickers, button, raised>>

\* The user changes the multiselect: a whole run in which st.button is False.
ChangeSelection ==
    /\ pc = "idle"
    /\ \E S \in SUBSET yieldmax_tickers :
          /\ S # selected_tickers
          /\ selected_tickers' = S
    /\ button' = FALSE
    /\ raised' = {}
    /\ \E r \in {ScriptRest(fund_data, fund_dividends, start_date, end_date, {})} : Finish(r)
    /\ UNCHANGED <<market, fund_data>>

\* The user picks another start date among min_value..max_value of the input:
\* a whole run in which st.button is False.
ChangeStartDate ==
    /\ pc = "idle"
    /\ "date_inputs" \in shown
    /\ button' = FALSE
    /\ raised' = {}
    /\ \E d \in widget_bounds[1]..widget_bounds[2] :
          /\ d # start_date
          /\ \E r \in {ScriptRest(fund_data, fund_dividends, d, end_date, {})} : Finish(r)
    /\ UNCHANGED <<market, fund_data, selected_tickers>>

\* The user picks another end date.
ChangeEndDate ==
    /\ pc = "idle"
    /\ "date_inputs" \in shown
    /\ button' = FALSE
    /\ raised' = {}
    /\ \E d \in widget_bounds[1]..widget_bounds[2] :
          /\ d # end_date
          /\ \E r \in {ScriptRest(fund_data, fund_dividends, start_date, d, {})} : Finish(r)
    /\ UNCHANGED <<market, fund_data, selected_tickers>>

Next ==
    \/ PressFetch
    \/ FetchComplete
    \/ FetchError
    \/ RenderFetched
    \/ ChangeSelection
    \/ ChangeStartDate
    \/ ChangeEndDate

Spec == Init /\ [][Next]_vars

SpecSigned == InitSigned /\ [][Next]_vars

-----------------------------------------------------------------------------
(* Properties *)

\* The latest run pressed the button and its fetch call returned.
FetchCompleted == button /\ raised = {} /\ pc \in {"fetched", "idle"}

\* The cached dividend dates of ticker t that the date filter lets through.
RowsInRange(t) ==
    {d \in DOMAIN fund_dividends[t].rows : start_date <= d /\ d <= end_date}

\* The tickers with a row in the table and the dates with a row in it.
VisibleTickers == {t \in DOMAIN fund_dividends : RowsInRange(t) # {}}
CandidateColumns == UNION {RowsInRange(t) : t \in DOMAIN fund_dividends}

EveryValueIs(d, v) ==
    \A t \in VisibleTickers : d \in RowsInRange(t) /\ fund_dividends[t].rows[d] = v
EveryValueMissing(d) == \A t \in VisibleTickers : d \notin RowsInRange(t)

\* C1: the table on the page has a date column exactly for the dates that have
\* a cached row with start <= date <= end and whose column is not all 0, not
\* all 1 and not all missing; its cells are the cached amounts; and none of its
\* columns is entirely 0, entirely 1 or entirely missing.
C1_ColumnDropRule ==
    (pc = "idle" /\ "table" \in shown) =>
        /\ \A d \in Dates \cup {Epoch2000} :
              d \in pivoted_dividends.columns <=>
                  /\ d \in CandidateColumns
                  /\ ~EveryValueIs(d, 0)
                  /\ ~EveryValueIs(d, 1)
                  /\ ~EveryValueMissing(d)
        /\ pivoted_dividends.index = VisibleTickers
        /\ \A t \in pivoted_dividends.index :
              /\ DOMAIN pivoted_dividends.values[t] =
                     RowsInRange(t) \cap pivoted_dividends.columns
              /\ \A d \in DOMAIN pivoted_dividends.values[t] :
                     pivoted_dividends.values[t][d] = fund_dividends[t].rows[d]
        /\ \A d \in pivoted_dividends.columns :
              /\ \E t \in pivoted_dividends.index :
                     d \notin DOMAIN pivoted_dividends.values[t]
                         \/ pivoted_dividends.values[t][d] # 0
              /\ \E t \in pivoted_dividends.index :
                     d \notin DOMAIN pivoted_dividends.values[t]
                         \/ pivoted_dividends.values[t][d] # 1
              /\ \E t \in pivoted_dividends.index :
                     d \in DOMAIN pivoted_dividends.values[t]

\* The scenario of the specification, with 2 for the amount 0.5: TSLY pays 2
\* then 0, YMAX pays 0 then 0, the filter is the full range; the table keeps
\* the first date, where YMAX shows 0, and drops the second.
C1_Witness ==
    /\ pc = "idle" /\ "table" \in shown
    /\ DOMAIN fund_dividends = {"TSLY", "YMAX"}
    /\ fund_dividends["TSLY"].rows = (1 :> 2 @@ 2 :> 0)
    /\ fund_dividends["YMAX"].rows = (1 :> 0 @@ 2 :> 0)
    /\ start_date = 1 /\ end_date = 2
    /\ pivoted_dividends.columns = {1}
    /\ pivoted_dividends.values["YMAX"][1] = 0

\* C2: after every run that reached the resolver, the bounds are
\* (2000-01-01, today) when the dividend cache is empty, and the least and the
\* greatest cached dividend date when it holds at least one row.
C2_DateRangeResolution ==
    pc = "idle" =>
        /\ DOMAIN fund_dividends = {} => (min_date = Epoch2000 /\ max_date = Today)
        /\ (DOMAIN fund_dividends # {} /\ CombinedDates(fund_dividends) # {}) =>
              /\ min_date \in CombinedDates(fund_dividends)
              /\ max_date \in CombinedDates(fund_dividends)
              /\ \A d \in CombinedDates(fund_dividends) : min_date <= d /\ d <= max_date

\* Two tickers are cached, the least date comes from one and the greatest from
\* the other, and neither is a default.
C2_Witness ==
    /\ pc = "idle"
    /\ DOMAIN fund_dividends = {"TSLY", "YMAX"}
    /\ min_date \in DOMAIN fund_dividends["TSLY"].rows
    /\ min_date \notin DOMAIN fund_dividends["YMAX"].rows
    /\ max_date \in DOMAIN fund_dividends["YMAX"].rows
    /\ max_date \notin DOMAIN fund_dividends["TSLY"].rows
    /\ min_date > Epoch2000

\* C3: whatever is cached, the resolver yields a valid pair of dates and the
\* run goes on past the date inputs.
C3_ResolverNeverFails ==
    (pc = "idle" /\ raised = {}) =>
        /\ min_date # NaT
        /\ max_date # NaT
        /\ min_date <= max_date
        /\ "date_inputs" \in shown

\* C4: whenever the dividend table has been filtered, start_date <= end_date.
C4_StartNotAfterEnd ==
    (pc = "idle" /\ "table" \in shown) => start_date <= end_date

\* C5: the session cache, the content of every cached table included, is
\* changed by no step other than the fetch call of a run that pressed the
\* button.
C5_CacheChangedOnlyByFetch ==
    [][pc # "fetching" => UNCHANGED <<fund_data, fund_dividends>>]_vars

\* C6: when a fetch call has returned for the selection S, the key set of the
\* price map and the key set of the dividend map are both exactly S, and they
\* still are when that run ends.
C6_FetchReplacesCache ==
    FetchCompleted =>
        /\ DOMAIN fund_data = selected_tickers
        /\ DOMAIN fund_dividends = selected_tickers

\* A fetch for YMAX alone has returned while the bounds of the page still are
\* those of a cache that held TSLY: its entry is gone.
C6_Witness ==
    /\ pc = "fetched"
    /\ selected_tickers = {"YMAX"}
    /\ DOMAIN fund_data = {"YMAX"} /\ DOMAIN fund_dividends = {"YMAX"}
    /\ min_date \in market["TSLY"].idx
    /\ min_date \notin market["YMAX"].idx

\* C7: whatever the start and end dates are, every run that reaches the price
\* chart draws one trace per cached ticker, holding every point of its cached
\* history.
C7_PriceChartIgnoresDates ==
    (pc = "idle" /\ "date_inputs" \in shown /\ DOMAIN fund_data # {}) =>
        /\ "price_chart" \in shown
        /\ DOMAIN fig = DOMAIN fund_data
        /\ \A t \in DOMAIN fund_data : fig[t] = fund_data[t] /\ fig[t] = Hist(t)

\* The date filter is narrower than the data and a trace holds a point that
\* lies outside it.
C7_Witness ==
    /\ pc = "idle" /\ "price_chart" \in shown
    /\ \E t \in DOMAIN fig : \E d \in DOMAIN fig[t] : d < start_date \/ d > end_date
    /\ start_date <= end_date

\* C8: every bar of the dividend chart belongs to a row of the table and to a
\* cell of that row that holds an amount, the bar has that amount, and the
\* amount is > 0.
C8_BarsArePositive ==
    (pc = "idle" /\ "dividend_chart" \in shown) =>
        /\ DOMAIN fig_dividends = pivoted_dividends.index
        /\ \A t \in DOMAIN fig_dividends : \A d \in DOMAIN fig_dividends[t] :
              /\ d \in DOMAIN pivoted_dividends.values[t]
              /\ fig_dividends[t][d] = pivoted_dividends.values[t][d]
              /\ fig_dividends[t][d] > 0

\* One row of the table holds a negative amount, a zero and a positive amount,
\* another row misses a date; only the positive amount has a bar.
C8_Witness ==
    /\ pc = "idle" /\ "dividend_chart" \in shown
    /\ \E t \in pivoted_dividends.index :
          /\ \E d \in DOMAIN pivoted_dividends.values[t] :
                pivoted_dividends.values[t][d] < 0 /\ d \notin DOMAIN fig_dividends[t]
          /\ \E d \in DOMAIN pivoted_dividends.values[t] :
                pivoted_dividends.values[t][d] > 0 /\ d \in DOMAIN fig_dividends[t]
    /\ \E t \in pivoted_dividends.index :
          \E d \in DOMAIN pivoted_dividends.values[t] :
                pivoted_dividends.values[t][d] = 0 /\ d \notin DOMAIN fig_dividends[t]
    /\ \E t \in pivoted_dividends.index :
          \E d \in pivoted_dividends.columns : d \notin DOMAIN pivoted_dividends.values[t]

\* C9 as claimed: after a fetch in which the provider raised for one symbol,
\* every other selected symbol has its entry in both maps of the cache.
C9_OtherSymbolsReachCache ==
    (pc = "idle" /\ raised # {}) =>
        \A u \in selected_tickers \ raised :
            u \in DOMAIN fund_data /\ u \in DOMAIN fund_dividends

\* C9 as amended: a fetch call in which the provider raised for a symbol ends
\* the run and leaves both maps as they were; a fetch call that returns gives
\* every selected symbol an entry, which holds no row when the provider returned
\* no row for it and every row the provider returned otherwise.
C9_FailureHandling ==
    [][pc = "fetching" =>
          /\ raised' # {} =>
                (pc' = "idle" /\ UNCHANGED <<fund_data, fund_dividends>>)
          /\ raised' = {} =>
                /\ pc' = "fetched"
                /\ DOMAIN fund_data' = selected_tickers
                /\ DOMAIN fund_dividends' = selected_tickers
                /\ \A t \in selected_tickers :
                      /\ DOMAIN fund_data'[t] = market[t].idx
                      /\ DOMAIN fund_dividends'[t].rows = market[t].idx]_vars

\* Both tickers were selected, the provider raised for one, and the other has
\* no entry in the cache.
C9_Witness ==
    /\ pc = "idle" /\ raised # {}
    /\ selected_tickers = {"TSLY", "YMAX"}
    /\ \E u \in selected_tickers \ raised : u \notin DOMAIN fund_dividends

IdleView ==
    /\ DOMAIN fund_data = {} /\ DOMAIN fund_dividends = {}
    /\ "idle_text" \in shown
    /\ shown \cap {"price_chart", "table", "dividend_chart"} = {}

LoadedView ==
    /\ DOMAIN fund_data # {} /\ DOMAIN fund_dividends # {}
    /\ {"price_chart", "table", "dividend_chart"} \subseteq shown
    /\ "idle_text" \notin shown

\* C10 as claimed, for what it says of the cache and of the fallback text: the
\* run of every fetch that returned, whatever the selection, ends with the
\* cache populated and without the Idle fallback text on the page.
C10_CompletionLeadsToLoaded ==
    (pc = "idle" /\ FetchCompleted) =>
        /\ DOMAIN fund_data # {} /\ DOMAIN fund_dividends # {}
        /\ "idle_text" \notin shown

\* C10 as amended: while a fetch call is pending the page shows the fetching
\* text; the run of a fetch that returned ends Loaded when the selection is not
\* empty and a dividend row was returned, ends Idle (empty cache, fallback text)
\* when the selection is empty, and ends at the date inputs with the cache
\* populated and neither charts nor fallback text when the selection is not
\* empty and no row was returned.
C10_StateMachine ==
    /\ pc = "fetching" => (button /\ "fetching" \in shown)
    /\ (pc = "idle" /\ FetchCompleted) =>
          IF selected_tickers = {}
             THEN IdleView
             ELSE IF CombinedDates(fund_dividends) # {}
                     THEN LoadedView
                     ELSE /\ DOMAIN fund_dividends = selected_tickers
                          /\ "exception" \in shown
                          /\ shown \cap {"price_chart", "table", "dividend_chart",
                                         "idle_text"} = {}

\* A fetch for the empty selection has returned and the page is the Idle one.
C10_Witness ==
    /\ pc = "idle" /\ FetchCompleted
    /\ selected_tickers = {}
    /\ IdleView

=============================================================================
